---------------------------- MODULE Spec2Model ----------------------------
(***************************************************************************)
(* A model of the drift-sdk order book mirror (DLOB): the sorted Node      *)
(* List (node_list.rs), the Order Node (dlob_node.rs), the classifier and  *)
(* the registry (dlob.rs).                                                 *)
(*                                                                         *)
(* Three specifications share the variables:                               *)
(*   SpecList      one NodeList driven by insert/update/remove/clear;      *)
(*   SpecClassify  the pure classifier applied to enumerated orders;       *)
(*   Spec          the DLOB registry driven by its operations.             *)
(*                                                                         *)
(* Conventions.                                                            *)
(*  - Option<T>: None and Some(x) below; for links, index 0 is None.       *)
(*  - usize `length` is kept modulo 2^64; the representative is the signed *)
(*    one, so -1 stands for 2^64 - 1 (usize::MAX) after a wrapping         *)
(*    subtraction from 0.  With overflow checks compiled in (debug         *)
(*    profile) the same subtraction panics; `overflow_checks` is the build *)
(*    and `panicked` records an aborted call.                              *)
(*  - A HashMap is a function on the set of its keys.                      *)
(***************************************************************************)
EXTENDS Integers, Sequences, FiniteSets, TLC

VARIABLES
    list,                               \* SpecList: the NodeList under test
    open_orders,                        \* DLOB.open_orders
    order_lists,                        \* DLOB.order_lists
    max_slot_for_resting_limit_orders,  \* DLOB.max_slot_for_resting_limit_orders
    initialized,                        \* DLOB.initialized
    overflow_checks,                    \* the build: TRUE = arithmetic overflow panics, FALSE = it wraps
    panicked,                           \* a call panicked; the thread unwound
    last                                \* the last operation: its name, arguments and return path

vars == <<list, open_orders, order_lists, max_slot_for_resting_limit_orders,
          initialized, overflow_checks, panicked, last>>

dlobVars == <<open_orders, order_lists, max_slot_for_resting_limit_orders, initialized>>

(***************************************************************************)
(* Bounds of the model.                                                    *)
(***************************************************************************)
MaxOrderId == 2
MaxPrice == 2
MaxUnderflow == 1
MaxSlot == 2
MaxMarketIndex == 1
MaxSnapshot == 2

Users == {"u1"}
OrderIds == 1..MaxOrderId
Prices == 1..MaxPrice
Slots == 0..MaxSlot
MarketIndexes == 0..MaxMarketIndex

None == [some |-> FALSE]
Some(x) == [some |-> TRUE, value |-> x]
EmptyMap == [k \in {} |-> None]

(***************************************************************************)
(* The Order value type (drift::state::user::Order), with the fields the   *)
(* core reads.                                                             *)
(***************************************************************************)
MarketTypes == {"Perp", "Spot"}
SupportedOrderTypes == {"Market", "Limit", "TriggerMarket", "TriggerLimit", "Oracle"}
OrderTypes == SupportedOrderTypes \cup {"Other"}
OrderStatuses == {"Init", "Open", "Filled"}
Directions == {"Long", "Short"}
TriggerConditions == {"Above", "Below", "TriggeredAbove", "TriggeredBelow"}
NodeTypes == {"RestingLimit", "TakingLimit", "FloatingLimit", "Market", "Trigger"}

BaseOrder ==
    [order_id |-> 1, market_type |-> "Perp", market_index |-> 0, order_type |-> "Limit",
     status |-> "Open", direction |-> "Long", price |-> 1, trigger_condition |-> "Above",
     base_asset_amount |-> 2, base_asset_amount_filled |-> 0, oracle_price_offset |-> 0,
     post_only |-> FALSE, slot |-> 0, auction_duration |-> 1]

(***************************************************************************)
(* node_list.rs: get_order_signature.  format!("{}-{}", user, order_id):   *)
(* a base58 key never holds '-', so the string determines the pair and the *)
(* pair stands for it.                                                     *)
(***************************************************************************)
get_order_signature(order_id, user_account) == <<user_account, order_id>>

(***************************************************************************)
(* dlob_node.rs: OrderNode::get_sort_value, OrderNode::new, create_node.   *)
(***************************************************************************)
get_sort_value(order) == order.price

create_node(node_type, order, user_account) ==
    [kind |-> node_type, order |-> order, user_account |-> user_account,
     sort_value |-> get_sort_value(order), have_filled |-> FALSE, have_trigger |-> FALSE]

(***************************************************************************)
(* node_list.rs: NodeList.  `wrappers` is the arena of the NodeWrapper     *)
(* values reachable from head; next/previous are indexes into it.          *)
(***************************************************************************)
NodeList_new(node_type, sort_direction) ==
    [head |-> 0, wrappers |-> <<>>, node_type |-> node_type, length |-> 0,
     node_map |-> EmptyMap, sort_direction |-> sort_direction]

NodeList_clear(l) ==
    [l EXCEPT !.head = 0, !.wrappers = <<>>, !.length = 0, !.node_map = EmptyMap]

prepend_node(l, current_node, new_node) ==
    IF l.sort_direction = "Asc"
    THEN new_node.sort_value < current_node.sort_value
    ELSE new_node.sort_value > current_node.sort_value

\* The while-let loop of insert, from wrapper `cur`: where it stops.
\* prepend = TRUE: it returns inside the loop, linking the new node after `at`.
\* prepend = FALSE: the loop ran off the end and `at` is the final current_node.
RECURSIVE insert_scan(_, _, _)
insert_scan(l, cur, new_node) ==
    IF cur = 0
    THEN [prepend |-> FALSE, at |-> 0]
    ELSE LET nxt == l.wrappers[cur].next
         IN IF nxt # 0 /\ prepend_node(l, l.wrappers[nxt].node, new_node)
            THEN [prepend |-> TRUE, at |-> cur]
            ELSE insert_scan(l, nxt, new_node)

\* Which return of insert is taken.
NodeList_insert_path(l, order, user_account) ==
    IF order.status = "Init" THEN "init"
    ELSE IF get_order_signature(order.order_id, user_account) \in DOMAIN l.node_map
    THEN "duplicate"
    ELSE IF l.head = 0 THEN "head"
    ELSE IF insert_scan(l, l.head, create_node(l.node_type, order, user_account)).prepend
    THEN "linked"
    ELSE "fell_through"

\* A plausible slip: insert without the contains_key guard.
NodeList_insert_unguarded(l, order, user_account) ==
    IF order.status = "Init" THEN l
    ELSE LET new_node == create_node(l.node_type, order, user_account)
             sig == get_order_signature(order.order_id, user_account)
         IN [l EXCEPT !.node_map = (sig :> new_node) @@ @, !.length = @ + 1]

NodeList_insert(l, order, user_account) ==
    IF order.status = "Init" THEN l
    ELSE
    LET new_node == create_node(l.node_type, order, user_account)
        sig == get_order_signature(order.order_id, user_account)
    IN  IF sig \in DOMAIN l.node_map THEN l
        ELSE
        LET l1 == [l EXCEPT !.node_map = (sig :> new_node) @@ @, !.length = @ + 1]
            n == Len(l1.wrappers) + 1
        IN  IF l1.head = 0
            THEN [l1 EXCEPT !.head = n,
                            !.wrappers = Append(@, [node |-> new_node, next |-> 0, previous |-> 0])]
            ELSE
            LET s == insert_scan(l1, l1.head, new_node)
            IN  IF s.prepend
                THEN LET nxt == l1.wrappers[s.at].next
                     IN [l1 EXCEPT !.wrappers =
                            Append([@ EXCEPT ![nxt].previous = n, ![s.at].next = n],
                                   [node |-> new_node, next |-> nxt, previous |-> s.at])]
                ELSE IF s.at # 0
                THEN [l1 EXCEPT !.wrappers =
                            Append([@ EXCEPT ![s.at].next = n],
                                   [node |-> new_node, next |-> 0, previous |-> s.at])]
                ELSE l1

NodeList_update(l, order, user_account) ==
    LET sig == get_order_signature(order.order_id, user_account)
    IN  IF sig \in DOMAIN l.node_map
        THEN [l EXCEPT !.node_map[sig] = create_node(l.node_type, order, user_account)]
        ELSE l

\* `self.length -= 1` on a usize of 0: a panic with overflow checks, a wrap without.
NodeList_remove_panics(l) == overflow_checks /\ l.length = 0

\* remove up to the subtraction: what is left of the list when the subtraction panics.
NodeList_remove_index(l, order, user_account) ==
    LET sig == get_order_signature(order.order_id, user_account)
    IN  [l EXCEPT !.node_map = [k \in (DOMAIN @) \ {sig} |-> @[k]]]

NodeList_remove(l, order, user_account) ==
    [NodeList_remove_index(l, order, user_account) EXCEPT !.length = @ - 1]

NodeList_has(l, order, user_account) ==
    get_order_signature(order.order_id, user_account) \in DOMAIN l.node_map

NodeList_get(l, sig) == IF sig \in DOMAIN l.node_map THEN Some(l.node_map[sig]) ELSE None

\* iter(): the nodes from head along the next links.
RECURSIVE iter_from(_, _)
iter_from(l, cur) ==
    IF cur = 0 THEN <<>> ELSE <<l.wrappers[cur].node>> \o iter_from(l, l.wrappers[cur].next)

NodeList_iter(l) == iter_from(l, l.head)

(***************************************************************************)
(* The two predicates of Order the classifier calls (drift crate).         *)
(***************************************************************************)
must_be_triggered(order) == order.order_type \in {"TriggerMarket", "TriggerLimit"}

is_resting_limit_order(order, slot) ==
    order.post_only \/ slot - order.slot > order.auction_duration

(***************************************************************************)
(* dlob.rs: the classifier.                                                *)
(***************************************************************************)
\* A plausible slip: the fired conditions mapped to their own direction.
determine_sub_type_by_fired_direction(order, is_inactive_trigger_order) ==
    IF is_inactive_trigger_order
    THEN [tag |-> "Trigger",
          value |-> IF order.trigger_condition \in {"Above", "TriggeredAbove"}
                    THEN "Above" ELSE "Below"]
    ELSE [tag |-> "Side",
          value |-> IF order.direction = "Long" THEN "Bid" ELSE "Ask"]

determine_sub_type(order, is_inactive_trigger_order) ==
    IF is_inactive_trigger_order
    THEN [tag |-> "Trigger",
          value |-> IF order.trigger_condition = "Above" THEN "Above" ELSE "Below"]
    ELSE [tag |-> "Side",
          value |-> IF order.direction = "Long" THEN "Bid" ELSE "Ask"]

\* A plausible slip: the Market rule tried before the Trigger rule.
determine_node_type_market_first(order, slot) ==
    IF order.order_type \in {"Market", "TriggerMarket", "Oracle"}
    THEN "Market"
    ELSE IF order.trigger_condition \in {"TriggeredAbove", "TriggeredBelow"} /\ must_be_triggered(order)
    THEN "Trigger"
    ELSE IF order.oracle_price_offset # 0
    THEN "FloatingLimit"
    ELSE IF is_resting_limit_order(order, slot)
    THEN "RestingLimit"
    ELSE "TakingLimit"

determine_node_type(order, slot) ==
    IF order.trigger_condition \in {"TriggeredAbove", "TriggeredBelow"} /\ must_be_triggered(order)
    THEN "Trigger"
    ELSE IF order.order_type \in {"Market", "TriggerMarket", "Oracle"}
    THEN "Market"
    ELSE IF order.oracle_price_offset # 0
    THEN "FloatingLimit"
    ELSE IF is_resting_limit_order(order, slot)
    THEN "RestingLimit"
    ELSE "TakingLimit"

(***************************************************************************)
(* dlob.rs: the registry.  The operations are functions of the DLOB value  *)
(*   d = [open_orders, order_lists, max_slot_for_resting_limit_orders,     *)
(*        initialized, panicked, scans]                                    *)
(* where `scans` lists the slots the full sweep scan ran for in the call.  *)
(* A MarketNodeLists value is one variant: [kind, ask, bid] or, for        *)
(* Trigger, [kind, above, below].                                          *)
(***************************************************************************)
DLOB_default ==
    [open_orders |-> [m \in MarketTypes |-> {}],
     order_lists |-> [m \in MarketTypes |-> EmptyMap],
     max_slot_for_resting_limit_orders |-> 0,
     initialized |-> FALSE,
     panicked |-> FALSE,
     scans |-> <<>>]

\* A plausible slip: initialize that leaves the flag as it is.
initialize_skipped(d) == d

initialize(d) == [d EXCEPT !.initialized = TRUE]

\* A plausible slip: clear that ends in the constructed, not yet initialized state.
clear_to_default(d) ==
    [d EXCEPT !.open_orders = [m \in MarketTypes |-> {}],
              !.order_lists = [m \in MarketTypes |-> EmptyMap],
              !.max_slot_for_resting_limit_orders = 0,
              !.initialized = FALSE]

\* Each open-order set and each list is emptied, then both maps are cleared.
clear(d) ==
    initialize([d EXCEPT !.open_orders = EmptyMap,
                         !.order_lists = EmptyMap,
                         !.max_slot_for_resting_limit_orders = 0])

new_market_node_lists ==
    << [kind |-> "RestingLimit",  ask |-> NodeList_new("RestingLimit", "Asc"),
                                  bid |-> NodeList_new("RestingLimit", "Desc")],
       [kind |-> "FloatingLimit", ask |-> NodeList_new("FloatingLimit", "Asc"),
                                  bid |-> NodeList_new("FloatingLimit", "Desc")],
       [kind |-> "TakingLimit",   ask |-> NodeList_new("TakingLimit", "Asc"),
                                  bid |-> NodeList_new("TakingLimit", "Asc")],
       [kind |-> "Market",        ask |-> NodeList_new("Market", "Asc"),
                                  bid |-> NodeList_new("Market", "Asc")],
       [kind |-> "Trigger",       above |-> NodeList_new("Trigger", "Asc"),
                                  below |-> NodeList_new("Trigger", "Desc")] >>

\* for v in values { map.insert(key, v) }: each insert replaces the value under key.
RECURSIVE insert_each(_, _, _, _)
insert_each(map, key, values, i) ==
    IF i > Len(values) THEN map
    ELSE insert_each((key :> values[i]) @@ map, key, values, i + 1)

add_order_list(d, market_type, market_index) ==
    [d EXCEPT !.order_lists =
        (market_type :> insert_each(IF market_type \in DOMAIN @ THEN @[market_type] ELSE EmptyMap,
                                    market_index, new_market_node_lists, 1)) @@ @]

\* The MarketNodeLists stored for the order's market, if any.
market_node_lists_of(d, order) ==
    IF order.market_type \in DOMAIN d.order_lists
       /\ order.market_index \in DOMAIN d.order_lists[order.market_type]
    THEN Some(d.order_lists[order.market_type][order.market_index])
    ELSE None

\* Returns a clone of the resolved list (Option<NodeList>, `.cloned()`).
get_list_for_order(d, order, slot) ==
    LET node_type == determine_node_type(order, slot)
        order_sub_type == determine_sub_type(order, node_type = "Trigger")
        m == market_node_lists_of(d, order)
    IN  IF ~m.some THEN None
        ELSE IF m.value.kind # "Trigger"
        THEN IF order_sub_type.tag = "Side"
             THEN Some(IF order_sub_type.value = "Ask" THEN m.value.ask ELSE m.value.bid)
             ELSE None
        ELSE IF order_sub_type.tag = "Trigger"
             THEN Some(IF order_sub_type.value = "Above" THEN m.value.above ELSE m.value.below)
             ELSE None

\* Which return path insert_order takes.
insert_order_path(d, order, slot) ==
    IF order.status = "Init" THEN "init"
    ELSE IF order.order_type \notin SupportedOrderTypes THEN "unsupported"
    ELSE IF get_list_for_order(
               IF order.market_type \in DOMAIN d.order_lists THEN d
               ELSE add_order_list(d, order.market_type, order.market_index), order, slot).some
    THEN "routed"
    ELSE "no_list"

\* A plausible variant: insert_order that inserts into the registry's own list
\* instead of into the clone.
insert_order_in_place(d, order, user_account, slot) ==
    IF order.status = "Init" THEN d
    ELSE IF order.order_type \notin SupportedOrderTypes THEN d
    ELSE
    LET mt == order.market_type
        ix == order.market_index
        d1 == IF mt \notin DOMAIN d.order_lists
              THEN add_order_list(d, mt, ix)
              ELSE d
        order_signature == get_order_signature(order.order_id, user_account)
        d2 == IF order.status = "Open"
              THEN [d1 EXCEPT !.open_orders =
                      (mt :> ((IF mt \in DOMAIN @ THEN @[mt] ELSE {})
                              \cup {order_signature})) @@ @]
              ELSE d1
        sub == determine_sub_type(order, determine_node_type(order, slot) = "Trigger").value
    IN  IF ~get_list_for_order(d2, order, slot).some THEN d2
        ELSE CASE sub = "Ask" ->
                    [d2 EXCEPT !.order_lists[mt][ix].ask = NodeList_insert(@, order, user_account)]
               [] sub = "Bid" ->
                    [d2 EXCEPT !.order_lists[mt][ix].bid = NodeList_insert(@, order, user_account)]
               [] sub = "Above" ->
                    [d2 EXCEPT !.order_lists[mt][ix].above = NodeList_insert(@, order, user_account)]
               [] sub = "Below" ->
                    [d2 EXCEPT !.order_lists[mt][ix].below = NodeList_insert(@, order, user_account)]

\* A plausible slip: insert_order without its two early returns.
insert_order_unfiltered(d, order, user_account, slot) ==
    LET market_type == order.market_type
        d1 == IF market_type \notin DOMAIN d.order_lists
              THEN add_order_list(d, market_type, order.market_index)
              ELSE d
        order_signature == get_order_signature(order.order_id, user_account)
    IN  IF order.status = "Open"
        THEN [d1 EXCEPT !.open_orders =
                (market_type :> ((IF market_type \in DOMAIN @ THEN @[market_type] ELSE {})
                                 \cup {order_signature})) @@ @]
        ELSE d1

\* A plausible slip: an accepted insert_order that also marks the registry initialized.
insert_order_initializing(d, order, user_account, slot) ==
    IF order.status = "Init" THEN d
    ELSE IF order.order_type \notin SupportedOrderTypes THEN d
    ELSE
    LET market_type == order.market_type
        d1 == IF market_type \notin DOMAIN d.order_lists
              THEN add_order_list(d, market_type, order.market_index)
              ELSE d
        order_signature == get_order_signature(order.order_id, user_account)
    IN  initialize(IF order.status = "Open"
                   THEN [d1 EXCEPT !.open_orders =
                           (market_type :> ((IF market_type \in DOMAIN @ THEN @[market_type] ELSE {})
                                            \cup {order_signature})) @@ @]
                   ELSE d1)

insert_order(d, order, user_account, slot) ==
    IF order.status = "Init" THEN d
    ELSE IF order.order_type \notin SupportedOrderTypes THEN d
    ELSE
    LET market_type == order.market_type
        d1 == IF market_type \notin DOMAIN d.order_lists
              THEN add_order_list(d, market_type, order.market_index)
              ELSE d
        order_signature == get_order_signature(order.order_id, user_account)
        d2 == IF order.status = "Open"
              THEN [d1 EXCEPT !.open_orders =
                      (market_type :> ((IF market_type \in DOMAIN @ THEN @[market_type] ELSE {})
                                       \cup {order_signature})) @@ @]
              ELSE d1
        clone == get_list_for_order(d2, order, slot)
        \* list.insert acts on the clone, which is dropped when the call returns
        dropped == IF clone.some THEN NodeList_insert(clone.value, order, user_account) ELSE None
    IN  d2

\* The nodes of a TakingLimit side that the sweep collects (every node holds an order).
nodes_to_update_of(l, side, slot) ==
    LET picked == SelectSeq(NodeList_iter(l), LAMBDA node : is_resting_limit_order(node.order, slot))
    IN  [i \in 1..Len(picked) |-> [side |-> side, node |-> picked[i]]]

RECURSIVE apply_updates(_, _, _)
apply_updates(market_node_lists, nodes_to_update, i) ==
    IF i > Len(nodes_to_update) THEN market_node_lists
    ELSE
    LET side == nodes_to_update[i].side
        node == nodes_to_update[i].node
        next ==
            IF market_node_lists.kind = "RestingLimit"
            THEN IF side = "Ask"
                 THEN [market_node_lists EXCEPT !.ask =
                         NodeList_insert(NodeList_remove(@, node.order, node.user_account),
                                         node.order, node.user_account)]
                 ELSE [market_node_lists EXCEPT !.bid =
                         NodeList_insert(NodeList_remove(@, node.order, node.user_account),
                                         node.order, node.user_account)]
            ELSE market_node_lists
    IN  apply_updates(next, nodes_to_update, i + 1)

\* One iteration of `for market_node_lists in map.values_mut()`.
sweep_market_node_lists(market_node_lists, slot) ==
    LET nodes_to_update ==
            IF market_node_lists.kind = "TakingLimit"
            THEN nodes_to_update_of(market_node_lists.ask, "Ask", slot)
                 \o nodes_to_update_of(market_node_lists.bid, "Bid", slot)
            ELSE <<>>
    IN  apply_updates(market_node_lists, nodes_to_update, 1)

update_resting_limit_orders_for_market_type(d, slot, market_type) ==
    IF market_type \in DOMAIN d.order_lists
    THEN [d EXCEPT !.order_lists[market_type] =
            [i \in DOMAIN @ |-> sweep_market_node_lists(@[i], slot)]]
    ELSE d

update_resting_limit_orders(d, slot) ==
    IF d.panicked THEN d
    ELSE IF slot <= d.max_slot_for_resting_limit_orders THEN d
    ELSE update_resting_limit_orders_for_market_type(
             update_resting_limit_orders_for_market_type(
                 [d EXCEPT !.max_slot_for_resting_limit_orders = 0,
                           !.scans = Append(@, slot)],
                 slot, "Perp"),
             slot, "Spot")

delete(d, order, user_account, slot) ==
    IF d.panicked THEN d
    ELSE IF order.status = "Init" THEN d
    ELSE
    LET d1 == update_resting_limit_orders(d, slot)
        clone == get_list_for_order(d1, order, slot)
    IN  \* list.remove acts on the clone; its subtraction can still panic
        IF clone.some /\ NodeList_remove_panics(clone.value)
        THEN [d1 EXCEPT !.panicked = TRUE]
        ELSE d1

\* A plausible slip: trigger without its return for an untriggered condition.
trigger_unguarded(d, order, user_account, slot) ==
    IF d.panicked THEN d
    ELSE IF order.status = "Init" THEN d
    ELSE
    LET d1 == update_resting_limit_orders(d, slot)
        m == market_node_lists_of(d1, order)
        mt == order.market_type
        ix == order.market_index
    IN  IF ~m.some THEN d1
        ELSE IF m.value.kind # "Trigger" THEN d1
        ELSE IF order.trigger_condition = "Above"
        THEN IF NodeList_remove_panics(m.value.above)
             THEN [d1 EXCEPT !.order_lists[mt][ix].above = NodeList_remove_index(@, order, user_account),
                             !.panicked = TRUE]
             ELSE [d1 EXCEPT !.order_lists[mt][ix].above = NodeList_remove(@, order, user_account)]
        ELSE IF NodeList_remove_panics(m.value.below)
             THEN [d1 EXCEPT !.order_lists[mt][ix].below = NodeList_remove_index(@, order, user_account),
                             !.panicked = TRUE]
             ELSE [d1 EXCEPT !.order_lists[mt][ix].below = NodeList_remove(@, order, user_account)]

trigger(d, order, user_account, slot) ==
    IF d.panicked THEN d
    ELSE IF order.status = "Init" THEN d
    ELSE
    LET d1 == update_resting_limit_orders(d, slot)
        m == market_node_lists_of(d1, order)
        mt == order.market_type
        ix == order.market_index
    IN  IF order.trigger_condition \in {"Above", "Below"} THEN d1
        ELSE IF ~m.some THEN d1
        ELSE IF m.value.kind # "Trigger" THEN d1
        \* trigger_list.remove acts in place, on the registry's own list;
        \* the insert that follows acts on a clone
        ELSE IF order.trigger_condition = "Above"
        THEN IF NodeList_remove_panics(m.value.above)
             THEN [d1 EXCEPT !.order_lists[mt][ix].above = NodeList_remove_index(@, order, user_account),
                             !.panicked = TRUE]
             ELSE [d1 EXCEPT !.order_lists[mt][ix].above = NodeList_remove(@, order, user_account)]
        ELSE IF NodeList_remove_panics(m.value.below)
             THEN [d1 EXCEPT !.order_lists[mt][ix].below = NodeList_remove_index(@, order, user_account),
                             !.panicked = TRUE]
             ELSE [d1 EXCEPT !.order_lists[mt][ix].below = NodeList_remove(@, order, user_account)]

update_order(d, order, user_account, slot, cumulative_base_asset_amount_filled) ==
    LET d1 == update_resting_limit_orders(d, slot)
        new_order == [order EXCEPT !.base_asset_amount = cumulative_base_asset_amount_filled]
        clone == get_list_for_order(d1, order, slot)
        \* node_list.update acts on the clone, which is dropped
        dropped == IF clone.some THEN NodeList_update(clone.value, new_order, user_account) ELSE None
    IN  IF order.base_asset_amount = cumulative_base_asset_amount_filled
        THEN delete(d1, order, user_account, slot)
        ELSE IF order.base_asset_amount_filled = cumulative_base_asset_amount_filled
        THEN d1
        ELSE d1

RECURSIVE insert_orders(_, _, _, _)
insert_orders(d, dlob_orders, slot, i) ==
    IF i > Len(dlob_orders) THEN d
    ELSE insert_orders(insert_order(d, dlob_orders[i].order, dlob_orders[i].user, slot),
                       dlob_orders, slot, i + 1)

\* A plausible slip: the bulk load without its initialized guard.
init_from_orders_unguarded(d, dlob_orders, slot) ==
    [d |-> initialize(insert_orders(d, dlob_orders, slot, 1)), ret |-> TRUE]

\* [d, ret]: the registry afterwards and the boolean returned.
init_from_orders(d, dlob_orders, slot) ==
    IF d.initialized THEN [d |-> d, ret |-> FALSE]
    ELSE [d |-> initialize(insert_orders(d, dlob_orders, slot, 1)), ret |-> TRUE]

\* The lists of one MarketNodeLists in the order get_node_lists flattens them.
lists_of(market_node_lists) ==
    IF market_node_lists.kind = "Trigger"
    THEN <<market_node_lists.above, market_node_lists.below>>
    ELSE <<market_node_lists.ask, market_node_lists.bid>>

\* The orders get_order can meet first among the lists of one market type: the
\* HashMap yields the market indexes in an unspecified order.
first_matches(d, market_type, order_sig) ==
    IF market_type \notin DOMAIN d.order_lists THEN {}
    ELSE { (IF NodeList_get(lists_of(b)[1], order_sig).some
            THEN NodeList_get(lists_of(b)[1], order_sig).value.order
            ELSE NodeList_get(lists_of(b)[2], order_sig).value.order) :
           b \in { d.order_lists[market_type][i] :
                     i \in { j \in DOMAIN d.order_lists[market_type] :
                               \E k \in 1..2 :
                                 NodeList_get(lists_of(d.order_lists[market_type][j])[k],
                                              order_sig).some } } }

\* The values get_order may return: Perp lists are scanned before Spot lists.
get_order(d, order_id, user_account) ==
    LET order_sig == get_order_signature(order_id, user_account)
    IN  IF first_matches(d, "Perp", order_sig) # {}
        THEN {Some(o) : o \in first_matches(d, "Perp", order_sig)}
        ELSE IF first_matches(d, "Spot", order_sig) # {}
        THEN {Some(o) : o \in first_matches(d, "Spot", order_sig)}
        ELSE {None}

\* The (market type, market index) pairs that hold a MarketNodeLists.
market_keys(d) ==
    UNION { { <<m, i>> : i \in DOMAIN d.order_lists[m] } : m \in DOMAIN d.order_lists }

\* get_node_lists: every list the registry holds, here as a set.
get_node_lists(d) ==
    UNION { { lists_of(d.order_lists[k[1]][k[2]])[n] : n \in 1..2 } : k \in market_keys(d) }

\* The registry stores the order's signature: in the open-order set of the order's
\* market type or in the index of a list of that market type.
stores_signature(d, order, user_account) ==
    LET order_signature == get_order_signature(order.order_id, user_account)
        market_type == order.market_type
    IN  \/ /\ market_type \in DOMAIN d.open_orders
           /\ order_signature \in d.open_orders[market_type]
        \/ /\ market_type \in DOMAIN d.order_lists
           /\ \E i \in DOMAIN d.order_lists[market_type], n \in 1..2 :
                 order_signature \in DOMAIN lists_of(d.order_lists[market_type][i])[n].node_map

(***************************************************************************)
(* SpecList: one NodeList and the calls made on it.                        *)
(***************************************************************************)
SortDirections == {"Asc", "Desc"}

ListOrders ==
    {[BaseOrder EXCEPT !.order_id = i, !.price = p, !.status = s] :
        i \in OrderIds, p \in Prices, s \in {"Init", "Open"}}

Sig(order, user_account) == get_order_signature(order.order_id, user_account)

\* The DLOB variables hold the value d.
Holds(d) ==
    /\ open_orders = d.open_orders
    /\ order_lists = d.order_lists
    /\ max_slot_for_resting_limit_orders = d.max_slot_for_resting_limit_orders
    /\ initialized = d.initialized

DlobDefault == Holds(DLOB_default)

InitList ==
    /\ \E d \in SortDirections : list = NodeList_new("RestingLimit", d)
    /\ DlobDefault
    /\ overflow_checks \in BOOLEAN
    /\ panicked = FALSE
    /\ last = [op |-> "new"]

ListInsert(order, user_account) ==
    /\ ~panicked
    /\ list' = NodeList_insert(list, order, user_account)
    /\ last' = [op |-> "insert", order |-> order, user_account |-> user_account,
                path |-> NodeList_insert_path(list, order, user_account)]
    /\ UNCHANGED <<dlobVars, overflow_checks, panicked>>

ListUpdate(order, user_account) ==
    /\ ~panicked
    /\ list' = NodeList_update(list, order, user_account)
    /\ last' = [op |-> "update", order |-> order, user_account |-> user_account,
                path |-> IF NodeList_has(list, order, user_account) THEN "replaced" ELSE "absent"]
    /\ UNCHANGED <<dlobVars, overflow_checks, panicked>>

ListRemove(order, user_account) ==
    /\ ~panicked
    /\ list.length > -MaxUnderflow
    /\ IF NodeList_remove_panics(list)
       THEN /\ list' = NodeList_remove_index(list, order, user_account)
            /\ panicked' = TRUE
       ELSE /\ list' = NodeList_remove(list, order, user_account)
            /\ panicked' = FALSE
    /\ last' = [op |-> "remove", order |-> order, user_account |-> user_account,
                path |-> IF NodeList_has(list, order, user_account) THEN "present" ELSE "absent"]
    /\ UNCHANGED <<dlobVars, overflow_checks>>

ListClear ==
    /\ ~panicked
    /\ list' = NodeList_clear(list)
    /\ last' = [op |-> "clear"]
    /\ UNCHANGED <<dlobVars, overflow_checks, panicked>>

\* update is fed live orders; remove reads nothing of its order but the order id.
NextList ==
    \/ \E o \in ListOrders, u \in Users : ListInsert(o, u)
    \/ \E o \in {x \in ListOrders : x.status = "Open"}, u \in Users : ListUpdate(o, u)
    \/ \E i \in OrderIds, u \in Users : ListRemove([BaseOrder EXCEPT !.order_id = i], u)
    \/ ListClear

SpecList == InitList /\ [][NextList]_vars

(***************************************************************************)
(* SpecClassify: the classifier applied to enumerated orders and slots.    *)
(***************************************************************************)
ClassifyOrders ==
    {[BaseOrder EXCEPT !.order_type = t, !.trigger_condition = c, !.oracle_price_offset = f,
                       !.post_only = p, !.direction = dir] :
        t \in OrderTypes, c \in TriggerConditions, f \in {-1, 0, 1}, p \in BOOLEAN,
        dir \in Directions}

InitClassify ==
    /\ list = NodeList_new("RestingLimit", "Asc")
    /\ DlobDefault
    /\ overflow_checks = FALSE
    /\ panicked = FALSE
    /\ last = [op |-> "new"]

Classify(order, slot) ==
    /\ last' = [op |-> "classify", order |-> order, slot |-> slot,
                node_type |-> determine_node_type(order, slot),
                sub_type |-> determine_sub_type(order, determine_node_type(order, slot) = "Trigger")]
    /\ UNCHANGED <<list, dlobVars, overflow_checks, panicked>>

\* determine_sub_type called with either value of its flag.
SubType(order, is_inactive_trigger_order) ==
    /\ last' = [op |-> "sub_type", order |-> order,
                is_inactive_trigger_order |-> is_inactive_trigger_order,
                sub_type |-> determine_sub_type(order, is_inactive_trigger_order)]
    /\ UNCHANGED <<list, dlobVars, overflow_checks, panicked>>

NextClassify ==
    \/ \E o \in ClassifyOrders, s \in Slots : Classify(o, s)
    \/ \E o \in ClassifyOrders, b \in BOOLEAN : SubType(o, b)

SpecClassify == InitClassify /\ [][NextClassify]_vars

(***************************************************************************)
(* Spec: the registry and the calls made on it.                            *)
(***************************************************************************)
\* The orders of the event stream.  An order keeps its market index, type, side
\* and price for its lifetime: odd ids are Limit/Long, even ids TriggerLimit/Short.
PlacedOrder(id) ==
    [BaseOrder EXCEPT !.order_id = id,
                      !.market_index = (id - 1) % (MaxMarketIndex + 1),
                      !.order_type = IF id % 2 = 1 THEN "Limit" ELSE "TriggerLimit",
                      !.direction = IF id % 2 = 1 THEN "Long" ELSE "Short",
                      !.price = 1 + ((id - 1) % MaxPrice)]

\* The events: live orders (Open or Filled) of either market type, a trigger order
\* before and after its condition fired; the same orders while still Init; and an
\* order of a type outside the supported five.
LiveOrders ==
    {[PlacedOrder(id) EXCEPT !.market_type = m, !.status = s, !.trigger_condition = c] :
        id \in OrderIds, m \in MarketTypes, s \in {"Open", "Filled"},
        c \in {"Above", "TriggeredAbove"}}

EventOrders ==
    {o \in LiveOrders : must_be_triggered(o) \/ o.trigger_condition = "Above"}
    \cup {[PlacedOrder(id) EXCEPT !.status = "Init"] : id \in OrderIds}
    \cup {[PlacedOrder(1) EXCEPT !.order_type = "Other"]}

DlobState ==
    [open_orders |-> open_orders,
     order_lists |-> order_lists,
     max_slot_for_resting_limit_orders |-> max_slot_for_resting_limit_orders,
     initialized |-> initialized,
     panicked |-> panicked,
     scans |-> <<>>]

\* The registry becomes d.
Becomes(d) ==
    /\ open_orders' = d.open_orders
    /\ order_lists' = d.order_lists
    /\ max_slot_for_resting_limit_orders' = d.max_slot_for_resting_limit_orders
    /\ initialized' = d.initialized
    /\ panicked' = d.panicked

\* The in-place subtraction of trigger stays within the modelled range of `length`.
LengthsInRange(d) ==
    \A l \in get_node_lists(d) : l.length >= -MaxUnderflow

Init ==
    /\ list = NodeList_new("RestingLimit", "Asc")
    /\ DlobDefault
    /\ overflow_checks \in BOOLEAN
    /\ panicked = FALSE
    /\ last = [op |-> "new"]

Clear ==
    /\ ~panicked
    /\ Becomes(clear(DlobState))
    /\ last' = [op |-> "clear",
                open_before |-> UNION {open_orders[m] : m \in DOMAIN open_orders},
                lists_before |-> Cardinality(get_node_lists(DlobState)),
                initialized_before |-> initialized]
    /\ UNCHANGED <<list, overflow_checks>>

InitFromOrders(dlob_orders, slot) ==
    /\ ~panicked
    /\ Becomes(init_from_orders(DlobState, dlob_orders, slot).d)
    /\ last' = [op |-> "init_from_orders", dlob_orders |-> dlob_orders, slot |-> slot,
                ret |-> init_from_orders(DlobState, dlob_orders, slot).ret]
    /\ UNCHANGED <<list, overflow_checks>>

InsertOrder(order, user_account, slot) ==
    /\ ~panicked
    /\ Becomes(insert_order(DlobState, order, user_account, slot))
    /\ last' = [op |-> "insert_order", order |-> order, user_account |-> user_account,
                slot |-> slot, path |-> insert_order_path(DlobState, order, slot),
                stored |-> stores_signature(DlobState, order, user_account)]
    /\ UNCHANGED <<list, overflow_checks>>

Delete(order, user_account, slot) ==
    /\ ~panicked
    /\ Becomes(delete(DlobState, order, user_account, slot))
    /\ last' = [op |-> "delete", order |-> order, user_account |-> user_account,
                slot |-> slot, scans |-> delete(DlobState, order, user_account, slot).scans]
    /\ UNCHANGED <<list, overflow_checks>>

Trigger(order, user_account, slot) ==
    /\ ~panicked
    /\ LengthsInRange(trigger(DlobState, order, user_account, slot))
    /\ Becomes(trigger(DlobState, order, user_account, slot))
    /\ last' = [op |-> "trigger", order |-> order, user_account |-> user_account,
                slot |-> slot, scans |-> trigger(DlobState, order, user_account, slot).scans]
    /\ UNCHANGED <<list, overflow_checks>>

UpdateOrder(order, user_account, slot, cumulative) ==
    /\ ~panicked
    /\ Becomes(update_order(DlobState, order, user_account, slot, cumulative))
    /\ last' = [op |-> "update_order", order |-> order, user_account |-> user_account,
                slot |-> slot, cumulative |-> cumulative,
                scans |-> update_order(DlobState, order, user_account, slot, cumulative).scans]
    /\ UNCHANGED <<list, overflow_checks>>

UpdateRestingLimitOrders(slot) ==
    /\ ~panicked
    /\ Becomes(update_resting_limit_orders(DlobState, slot))
    /\ last' = [op |-> "update_resting_limit_orders", slot |-> slot,
                scans |-> update_resting_limit_orders(DlobState, slot).scans]
    /\ UNCHANGED <<list, overflow_checks>>

GetOrder(order_id, user_account) ==
    /\ ~panicked
    /\ \E r \in get_order(DlobState, order_id, user_account) :
          last' = [op |-> "get_order", order_id |-> order_id, user_account |-> user_account,
                   ret |-> r]
    /\ UNCHANGED <<list, dlobVars, overflow_checks, panicked>>

\* The snapshots of a bulk load: up to MaxSnapshot live Perp orders.
SnapshotOrders ==
    {o \in EventOrders : o.market_type = "Perp" /\ o.status = "Open" /\ o.order_type # "Other"}

Snapshots ==
    UNION { [1..n -> {[user |-> u, order |-> o] : u \in Users, o \in SnapshotOrders}] :
            n \in 0..MaxSnapshot }

\* insert_order and init_from_orders do not read the watermark: their slot is
\* drawn above it.  trigger is fed the orders that can trigger; update_order the
\* open ones.
Next ==
    \/ Clear
    \/ \E snap \in Snapshots, s \in 1..MaxSlot : InitFromOrders(snap, s)
    \/ \E o \in EventOrders, u \in Users, s \in 1..MaxSlot : InsertOrder(o, u, s)
    \/ \E o \in EventOrders, u \in Users, s \in Slots : Delete(o, u, s)
    \/ \E o \in {x \in EventOrders : must_be_triggered(x)}, u \in Users, s \in Slots :
          Trigger(o, u, s)
    \/ \E o \in {x \in EventOrders : x.status = "Open" /\ x.order_type # "Other"},
          u \in Users, s \in Slots, c \in 0..BaseOrder.base_asset_amount :
          UpdateOrder(o, u, s, c)
    \/ \E s \in Slots : UpdateRestingLimitOrders(s)
    \/ \E i \in OrderIds, u \in Users : GetOrder(i, u)

Spec == Init /\ [][Next]_vars

(***************************************************************************)
(* Properties of the Node List (SpecList).                                 *)
(***************************************************************************)
IterSigs(l) ==
    [i \in 1..Len(NodeList_iter(l)) |->
        Sig(NodeList_iter(l)[i].order, NodeList_iter(l)[i].user_account)]

NoWorse(l, a, b) ==
    IF l.sort_direction = "Asc" THEN a.sort_value <= b.sort_value
                                ELSE a.sort_value >= b.sort_value

LastInsertAccepted ==
    last.op = "insert" /\ last.path \in {"head", "linked", "fell_through"}

LastNode == create_node(list.node_type, last.order, last.user_account)

\* C3 (as claimed): every adjacent pair of iter() is in the order of the list's
\* direction, and nodes with equal sort values appear in the order in which they
\* were inserted: once insert has accepted a node, every other node the list holds
\* with the same sort value appears in iter() ahead of it.
C3_SortInvariantClaim ==
    LET s == NodeList_iter(list)
        sigs == IterSigs(list)
    IN  /\ \A i \in 1..(Len(s) - 1) : NoWorse(list, s[i], s[i + 1])
        /\ LastInsertAccepted =>
              \A sig \in DOMAIN list.node_map :
                  (/\ sig # Sig(last.order, last.user_account)
                   /\ list.node_map[sig].sort_value = LastNode.sort_value)
                     => \E q, p \in DOMAIN sigs :
                           /\ q < p
                           /\ sigs[q] = sig
                           /\ sigs[p] = Sig(last.order, last.user_account)

\* C4 (as claimed): after any sequence of insert and remove calls the list holds at
\* most one node per signature and its length is the number of distinct signatures
\* present.
C4_UniqueAndLengthClaim ==
    /\ \A i, j \in DOMAIN IterSigs(list) : IterSigs(list)[i] = IterSigs(list)[j] => i = j
    /\ list.length = Cardinality(DOMAIN list.node_map)

\* C5 (as claimed): the signatures of the lookup index are those of the nodes
\* reachable from head, each once, and the index holds for a signature the node the
\* sequence yields for it.
C5_IndexSequenceAgreementClaim ==
    LET s == NodeList_iter(list)
        sigs == IterSigs(list)
    IN  /\ {sigs[i] : i \in DOMAIN sigs} = DOMAIN list.node_map
        /\ \A i, j \in DOMAIN sigs : sigs[i] = sigs[j] => i = j
        /\ \A i \in DOMAIN sigs :
              sigs[i] \in DOMAIN list.node_map => list.node_map[sigs[i]] = s[i]

\* C6 (as claimed): remove of a signature that is not in the list is a no-op: index,
\* sequence and length are unchanged, and the length counter neither panics on the
\* subtraction nor wraps below zero.
C6_RemoveAbsentNoOpClaim ==
    [][(last'.op = "remove" /\ ~NodeList_has(list, last'.order, last'.user_account))
          => (list' = list /\ ~panicked' /\ list'.length >= 0)]_vars

\* C7: insert of an order whose signature the list already holds with the same
\* fields leaves length, lookup index and sequence as they were.
C7_DuplicateInsertIdempotent ==
    [][(/\ last'.op = "insert"
        /\ NodeList_has(list, last'.order, last'.user_account)
        /\ list.node_map[Sig(last'.order, last'.user_account)].order = last'.order)
          => (/\ list'.length = list.length
              /\ list'.node_map = list.node_map
              /\ NodeList_iter(list') = NodeList_iter(list)
              /\ list' = list)]_vars

\* C7 witness: a second insert of a stored order has run.
C7_Witness ==
    /\ last.op = "insert"
    /\ last.path = "duplicate"
    /\ NodeList_has(list, last.order, last.user_account)
    /\ list.node_map[Sig(last.order, last.user_account)].order = last.order
    /\ list.length = 1

(***************************************************************************)
(* Properties of the registry (Spec) and of the classifier (SpecClassify). *)
(***************************************************************************)
Accepted(order) == order.status # "Init" /\ order.order_type \in SupportedOrderTypes

\* The registry's own list for (market type, market index, classification,
\* side or trigger direction), if the registry holds it.
OwnList(d, market_type, market_index, node_type, sub_value) ==
    IF <<market_type, market_index>> \in market_keys(d)
       /\ d.order_lists[market_type][market_index].kind = node_type
    THEN LET m == d.order_lists[market_type][market_index]
         IN  Some(CASE sub_value = "Ask" -> m.ask
                    [] sub_value = "Bid" -> m.bid
                    [] sub_value = "Above" -> m.above
                    [] sub_value = "Below" -> m.below)
    ELSE None

\* The order's signature is in the registry's own list for the given classification.
InOwnList(d, order, user_account, node_type) ==
    LET l == OwnList(d, order.market_type, order.market_index, node_type,
                     determine_sub_type(order, node_type = "Trigger").value)
    IN  l.some /\ NodeList_has(l.value, order, user_account)

\* C1 (as claimed): after insert_order of a non-Init order of a supported type, the
\* registry's own list for the order's market type, market index, classification at
\* that slot and side holds the order's signature.
C1_InsertRoutesToOwnListClaim ==
    (last.op = "insert_order" /\ Accepted(last.order))
        => InOwnList(DlobState, last.order, last.user_account,
                     determine_node_type(last.order, last.slot))

\* C2 (as claimed), on consecutive calls: get_order right after the insert_order
\* that accepted the signature returns an order with that id; right after
\* construction, clear, or the delete of that signature it returns None.
C2_GetOrderRoundTripClaim ==
    [][last'.op = "get_order" =>
        /\ (/\ last.op = "insert_order"
            /\ Accepted(last.order)
            /\ Sig(last.order, last.user_account)
                 = get_order_signature(last'.order_id, last'.user_account))
              => (last'.ret.some /\ last'.ret.value.order_id = last'.order_id)
        /\ last.op \in {"new", "clear"} => last'.ret = None
        /\ (/\ last.op = "delete"
            /\ last.order.status # "Init"
            /\ Sig(last.order, last.user_account)
                 = get_order_signature(last'.order_id, last'.user_account))
              => last'.ret = None]_vars

Sweeps(l) == l.op \in {"delete", "trigger", "update_order", "update_resting_limit_orders"}

\* C8 (as claimed): the full scan runs at most once per slot value: a call scans no
\* slot twice, and a call that follows one that scanned slot s does not scan s again.
C8_SweepOncePerSlotClaim ==
    [][Sweeps(last') =>
        /\ \A i, j \in DOMAIN last'.scans : last'.scans[i] = last'.scans[j] => i = j
        /\ Sweeps(last) =>
              \A i \in DOMAIN last.scans, j \in DOMAIN last'.scans :
                  last.scans[i] # last'.scans[j]]_vars

\* C9 (as claimed): a sweep above the watermark, run right after insert_order routed
\* an order as TakingLimit (C1), leaves the order in the RestingLimit list of its
\* market index and side and out of the TakingLimit list when the resting predicate
\* holds at the sweep's slot, and in the TakingLimit list when it does not.
C9_SweepPromotesClaim ==
    [][(/\ last.op = "insert_order"
        /\ Accepted(last.order)
        /\ determine_node_type(last.order, last.slot) = "TakingLimit"
        /\ last'.op = "update_resting_limit_orders"
        /\ last'.slot > max_slot_for_resting_limit_orders)
        => IF is_resting_limit_order(last.order, last'.slot)
           THEN /\ InOwnList(DlobState', last.order, last.user_account, "RestingLimit")
                /\ ~InOwnList(DlobState', last.order, last.user_account, "TakingLimit")
           ELSE InOwnList(DlobState', last.order, last.user_account, "TakingLimit")]_vars

\* C10: determine_node_type returns one classification, chosen by the first rule
\* that matches: Trigger, Market, FloatingLimit, RestingLimit, TakingLimit.
C10_ClassificationByFirstRule ==
    last.op = "classify" =>
        LET o == last.order
            r1 == o.trigger_condition \in {"TriggeredAbove", "TriggeredBelow"}
                  /\ must_be_triggered(o)
            r2 == o.order_type \in {"Market", "TriggerMarket", "Oracle"}
            r3 == o.oracle_price_offset # 0
            r4 == is_resting_limit_order(o, last.slot)
        IN  /\ last.node_type \in NodeTypes
            /\ r1 => last.node_type = "Trigger"
            /\ (~r1 /\ r2) => last.node_type = "Market"
            /\ (~r1 /\ ~r2 /\ r3) => last.node_type = "FloatingLimit"
            /\ (~r1 /\ ~r2 /\ ~r3 /\ r4) => last.node_type = "RestingLimit"
            /\ (~r1 /\ ~r2 /\ ~r3 /\ ~r4) => last.node_type = "TakingLimit"

\* C10 witness: a triggered TriggerMarket order, which the first rule (Trigger)
\* takes ahead of the second (Market).
C10_Witness ==
    /\ last.op = "classify"
    /\ last.order.order_type = "TriggerMarket"
    /\ last.order.trigger_condition = "TriggeredBelow"
    /\ last.node_type = "Trigger"

\* C11: the sub-bucket of an order.  With the Trigger flag it is Above for the
\* condition Above and Below for every other condition; without it, Bid for Long
\* and Ask otherwise.  The flag get_list_for_order passes is "classified Trigger".
C11_SubBucket ==
    /\ last.op = "sub_type" =>
          IF last.is_inactive_trigger_order
          THEN last.sub_type =
                 [tag |-> "Trigger",
                  value |-> IF last.order.trigger_condition = "Above" THEN "Above" ELSE "Below"]
          ELSE last.sub_type =
                 [tag |-> "Side",
                  value |-> IF last.order.direction = "Long" THEN "Bid" ELSE "Ask"]
    /\ last.op = "classify" =>
          IF last.node_type = "Trigger"
          THEN last.sub_type =
                 [tag |-> "Trigger",
                  value |-> IF last.order.trigger_condition = "Above" THEN "Above" ELSE "Below"]
          ELSE last.sub_type =
                 [tag |-> "Side",
                  value |-> IF last.order.direction = "Long" THEN "Bid" ELSE "Ask"]

\* C11 witness: a Trigger sub-bucket asked for a condition other than Above or Below.
C11_Witness ==
    /\ last.op = "sub_type"
    /\ last.is_inactive_trigger_order
    /\ last.order.trigger_condition = "TriggeredAbove"
    /\ last.sub_type.value = "Below"

\* The order's signature is in a Trigger list of its market index.
InTriggerList(d, order, user_account, sub_value) ==
    LET l == OwnList(d, order.market_type, order.market_index, "Trigger", sub_value)
    IN  l.some /\ NodeList_has(l.value, order, user_account)

\* The order's signature is in a Limit-family list on the side of its direction.
InLimitFamilyList(d, order, user_account) ==
    \E node_type \in {"RestingLimit", "TakingLimit", "FloatingLimit"} :
        InOwnList(d, order, user_account, node_type)

\* C12 (as claimed): insert_order of a TriggerLimit order with condition Above puts
\* it in the Trigger/Above list of its market index; the trigger call that follows
\* with the same order and condition TriggeredAbove leaves it in no Trigger list and
\* in a Limit-family list on the side of its direction.
C12_TriggerFlipClaim ==
    [][/\ (/\ last'.op = "insert_order"
            /\ Accepted(last'.order)
            /\ last'.order.order_type = "TriggerLimit"
            /\ last'.order.trigger_condition = "Above")
              => InTriggerList(DlobState', last'.order, last'.user_account, "Above")
       /\ (/\ last.op = "insert_order"
            /\ Accepted(last.order)
            /\ last.order.order_type = "TriggerLimit"
            /\ last.order.trigger_condition = "Above"
            /\ last'.op = "trigger"
            /\ last'.user_account = last.user_account
            /\ last'.order = [last.order EXCEPT !.trigger_condition = "TriggeredAbove"])
              => /\ ~InTriggerList(DlobState', last'.order, last'.user_account, "Above")
                 /\ ~InTriggerList(DlobState', last'.order, last'.user_account, "Below")
                 /\ InLimitFamilyList(DlobState', last'.order, last'.user_account)]_vars

\* No Node List of the registry holds the signature, in its index or in its sequence.
AbsentFromEveryList(d, order, user_account) ==
    \A l \in get_node_lists(d) :
        /\ ~NodeList_has(l, order, user_account)
        /\ \A i \in DOMAIN IterSigs(l) : IterSigs(l)[i] # Sig(order, user_account)

\* C13 (as claimed), on consecutive calls: a delete, or an update_order whose
\* cumulative filled amount is the order's total base amount, made at a slot no
\* lower than that of the insert_order that accepted the signature, completes and
\* leaves the signature absent from every Node List of the registry.
C13_RemovalClaim ==
    [][(/\ last.op = "insert_order"
        /\ Accepted(last.order)
        /\ \/ last'.op = "delete"
           \/ /\ last'.op = "update_order"
              /\ last'.cumulative = last'.order.base_asset_amount
        /\ last'.order.status # "Init"
        /\ Sig(last'.order, last'.user_account) = Sig(last.order, last.user_account)
        /\ last'.slot >= last.slot)
          => /\ ~panicked'
             /\ AbsentFromEveryList(DlobState', last'.order, last'.user_account)]_vars

\* C14 (as claimed), on consecutive calls: update_order of the order insert_order
\* has just accepted changes no list when the cumulative filled amount is the
\* order's filled amount; when it differs from the filled amount and from the
\* total base amount, the snapshot the registry then returns for the signature
\* has the cumulative amount as filled amount and the total base amount unchanged.
C14_PartialFillClaim ==
    [][(/\ last.op = "insert_order"
        /\ Accepted(last.order)
        /\ last'.op = "update_order"
        /\ last'.order = last.order
        /\ last'.user_account = last.user_account)
          => /\ last'.cumulative = last'.order.base_asset_amount_filled
                  => order_lists' = order_lists
             /\ (/\ last'.cumulative # last'.order.base_asset_amount_filled
                 /\ last'.cumulative # last'.order.base_asset_amount)
                  => \A r \in get_order(DlobState', last'.order.order_id, last'.user_account) :
                        /\ r.some
                        /\ r.value.base_asset_amount_filled = last'.cumulative
                        /\ r.value.base_asset_amount = last'.order.base_asset_amount]_vars

\* The registry holds for (market type, market index) the bucket of one
\* classification, with its two directional lists.
HoldsBucket(d, market_type, market_index, node_type) ==
    /\ <<market_type, market_index>> \in market_keys(d)
    /\ d.order_lists[market_type][market_index].kind = node_type
    /\ Len(lists_of(d.order_lists[market_type][market_index])) = 2

\* C15 (as claimed): after insert_order of a non-Init order of a supported type the
\* registry holds all five classification buckets for the order's market type and
\* market index.
C15_BucketCreationClaim ==
    (last.op = "insert_order" /\ Accepted(last.order))
        => \A node_type \in NodeTypes :
              HoldsBucket(DlobState, last.order.market_type, last.order.market_index, node_type)

\* The registry after insert_order of the first n pairs of a snapshot, in order.
RECURSIVE AfterInserts(_, _, _, _)
AfterInserts(d, dlob_orders, slot, n) ==
    IF n = 0 THEN d
    ELSE insert_order(AfterInserts(d, dlob_orders, slot, n - 1),
                      dlob_orders[n].order, dlob_orders[n].user, slot)

\* C16: init_from_orders on an Initialized registry returns false and changes
\* nothing; on an Uninitialized one it leaves the registry as insert_order of every
\* pair, in order, at the given slot leaves it, Initialized, and returns true.
C16_InitFromOrders ==
    [][last'.op = "init_from_orders" =>
          IF initialized
          THEN /\ last'.ret = FALSE
               /\ UNCHANGED dlobVars
          ELSE /\ last'.ret = TRUE
               /\ initialized'
               /\ LET d == AfterInserts(DlobState, last'.dlob_orders, last'.slot,
                                        Len(last'.dlob_orders))
                  IN  /\ open_orders' = d.open_orders
                      /\ order_lists' = d.order_lists
                      /\ max_slot_for_resting_limit_orders'
                            = d.max_slot_for_resting_limit_orders]_vars

\* C16 witness: a bulk load of MaxSnapshot pairs was applied to an Uninitialized
\* registry.
C16_Witness ==
    /\ last.op = "init_from_orders"
    /\ last.ret = TRUE
    /\ Len(last.dlob_orders) = MaxSnapshot
    /\ initialized
    /\ \A i \in DOMAIN last.dlob_orders :
          Sig(last.dlob_orders[i].order, last.dlob_orders[i].user) \in open_orders["Perp"]

\* C17: after clear() every open-order set is empty, no Node List of the registry
\* holds a node, the watermark is 0 and the registry is Initialized.
C17_ClearResets ==
    last.op = "clear" =>
        /\ \A m \in DOMAIN open_orders : open_orders[m] = {}
        /\ \A l \in get_node_lists(DlobState) :
              /\ DOMAIN l.node_map = {}
              /\ NodeList_iter(l) = <<>>
              /\ l.length = 0
        /\ max_slot_for_resting_limit_orders = 0
        /\ initialized

\* C17 witness: clear() ran on a registry that held open orders and lists.
C17_Witness ==
    /\ last.op = "clear"
    /\ last.open_before # {}
    /\ last.lists_before > 0
    /\ DOMAIN open_orders = {}
    /\ initialized

\* C18 (as claimed): clear() leaves the registry uninitialized, and an
\* init_from_orders call made directly after clear() is applied and returns true.
C18_ReinitAfterClearClaim ==
    [][/\ last'.op = "clear" => ~initialized'
       /\ (last.op = "clear" /\ last'.op = "init_from_orders")
             => (/\ last'.ret = TRUE
                 /\ \A i \in DOMAIN last'.dlob_orders :
                       last'.dlob_orders[i].order.status = "Open"
                         => /\ "Perp" \in DOMAIN open_orders'
                            /\ Sig(last'.dlob_orders[i].order, last'.dlob_orders[i].user)
                                 \in open_orders'["Perp"])]_vars

\* C18 (amended): clear() leaves the registry Initialized, so an init_from_orders
\* call made directly after clear() returns false and changes nothing.
C18_InitAfterClearRejected ==
    [][/\ last'.op = "clear" => initialized'
       /\ (last.op = "clear" /\ last'.op = "init_from_orders")
             => (last'.ret = FALSE /\ UNCHANGED dlobVars)]_vars

\* C18 witness: a bulk load of a non-empty snapshot was refused by a registry that
\* is as clear() leaves it.
C18_Witness ==
    /\ last.op = "init_from_orders"
    /\ Len(last.dlob_orders) > 0
    /\ last.ret = FALSE
    /\ DOMAIN open_orders = {}
    /\ DOMAIN order_lists = {}
    /\ max_slot_for_resting_limit_orders = 0
    /\ initialized

C20_SilentRejection ==
    [][(/\ last'.op = "insert_order"
        /\ \/ last'.order.status = "Init"
           \/ last'.order.order_type \notin SupportedOrderTypes
           \/ stores_signature(DlobState, last'.order, last'.user_account))
          => (UNCHANGED dlobVars /\ ~panicked')]_vars

\* C20 witness: insert_order was given, after clear(), an open order of a supported
\* type whose signature the registry already stored.
C20_Witness ==
    /\ last.op = "insert_order"
    /\ Accepted(last.order)
    /\ last.order.status = "Open"
    /\ last.stored
    /\ DOMAIN order_lists = {last.order.market_type}

\* The open-order set of the order's market type holds the order's signature.
InOpenOrders(d, order, user_account) ==
    /\ order.market_type \in DOMAIN d.open_orders
    /\ Sig(order, user_account) \in d.open_orders[order.market_type]

\* C21 (as claimed): insert_order of an Open order of a supported type adds its
\* signature to the open-order set of its market type, and the signature is not in
\* that set once the order is deleted or fully filled.
C21_OpenOrderSetClaim ==
    [][/\ (/\ last'.op = "insert_order"
            /\ Accepted(last'.order)
            /\ last'.order.status = "Open")
              => InOpenOrders(DlobState', last'.order, last'.user_account)
       /\ (/\ \/ last'.op = "delete"
               \/ /\ last'.op = "update_order"
                  /\ last'.cumulative = last'.order.base_asset_amount
            /\ last'.order.status # "Init")
              => ~InOpenOrders(DlobState', last'.order, last'.user_account)]_vars

\* The sequence with the node linked immediately before the first node it is
\* strictly better than under the direction, or appended when there is none.
WithNodeInPlace(seq, node, sort_direction) ==
    LET worse == {i \in 1..Len(seq) :
                    IF sort_direction = "Asc" THEN node.sort_value < seq[i].sort_value
                                              ELSE node.sort_value > seq[i].sort_value}
        k == IF worse = {} THEN Len(seq) + 1
             ELSE CHOOSE i \in worse : \A j \in worse : i <= j
    IN  SubSeq(seq, 1, k - 1) \o <<node>> \o SubSeq(seq, k, Len(seq))

\* The list is as inserts of distinct signatures alone would leave it: the sequence
\* holds one node per signature of the index and length counts them.
BuiltByInserts(l) ==
    /\ Len(NodeList_iter(l)) = Cardinality(DOMAIN l.node_map)
    /\ l.length = Cardinality(DOMAIN l.node_map)
    /\ \A i \in DOMAIN IterSigs(l) :
          /\ IterSigs(l)[i] \in DOMAIN l.node_map
          /\ l.node_map[IterSigs(l)[i]] = NodeList_iter(l)[i]

\* C22 (as claimed): insert of a non-Init order with a new signature into a list
\* built by inserts alone links the new node immediately before the first node it
\* is strictly better than, the head included, or appends it at the tail; iter()
\* then yields one node more.
C22_InsertPositionClaim ==
    [][(/\ last'.op = "insert"
        /\ last'.order.status # "Init"
        /\ ~NodeList_has(list, last'.order, last'.user_account)
        /\ BuiltByInserts(list))
          => /\ Len(NodeList_iter(list')) = Len(NodeList_iter(list)) + 1
             /\ NodeList_iter(list') =
                   WithNodeInPlace(NodeList_iter(list),
                                   create_node(list.node_type, last'.order, last'.user_account),
                                   list.sort_direction)]_vars

\* The directions of the two lists of a stored bucket.
DirectionsOf(market_node_lists) ==
    [n \in 1..2 |-> lists_of(market_node_lists)[n].sort_direction]

\* C23 (as claimed): when insert_order has add_order_list construct the lists of a
\* market index, each Bid list (RestingLimit, FloatingLimit, TakingLimit, Market) is
\* constructed descending and each Ask list ascending; and no call changes the
\* direction of a list the registry keeps.
C23_ListDirectionsClaim ==
    [][/\ (/\ last'.op = "insert_order"
            /\ Accepted(last'.order)
            /\ last'.order.market_type \notin DOMAIN order_lists)
              => \A i \in DOMAIN new_market_node_lists :
                    new_market_node_lists[i].kind # "Trigger"
                      => /\ new_market_node_lists[i].bid.sort_direction = "Desc"
                         /\ new_market_node_lists[i].ask.sort_direction = "Asc"
       /\ \A k \in market_keys(DlobState) \cap market_keys(DlobState') :
              DirectionsOf(order_lists'[k[1]][k[2]]) = DirectionsOf(order_lists[k[1]][k[2]])]_vars

\* C24 (as claimed): update with a signature the list does not hold changes
\* nothing; with one it holds, get(signature) and iter() both yield the node built
\* from the new snapshot, and length and the order of signatures in iter() stay as
\* they were.
C24_UpdateClaim ==
    [][last'.op = "update" =>
          LET sig == Sig(last'.order, last'.user_account)
              new_node == create_node(list.node_type, last'.order, last'.user_account)
          IN  IF ~NodeList_has(list, last'.order, last'.user_account)
              THEN list' = list
              ELSE /\ NodeList_get(list', sig) = Some(new_node)
                   /\ \A i \in DOMAIN IterSigs(list') :
                         IterSigs(list')[i] = sig => NodeList_iter(list')[i] = new_node
                   /\ list'.length = list.length
                   /\ IterSigs(list') = IterSigs(list)]_vars

\* C25: trigger of an order whose condition is still Above or Below completes and,
\* apart from the sweep it runs first, leaves every Node List and every open-order
\* set as it was.
C25_UntriggeredTriggerNoOp ==
    [][(/\ last'.op = "trigger"
        /\ last'.order.trigger_condition \in {"Above", "Below"})
          => /\ ~panicked'
             /\ open_orders' = open_orders
             /\ order_lists' =
                   IF last'.order.status = "Init" THEN order_lists
                   ELSE update_resting_limit_orders(DlobState, last'.slot).order_lists
             /\ \A k \in market_keys(DlobState) :
                   /\ k \in market_keys(DlobState')
                   /\ \A n \in 1..2 :
                         /\ DOMAIN lists_of(order_lists'[k[1]][k[2]])[n].node_map
                               = DOMAIN lists_of(order_lists[k[1]][k[2]])[n].node_map
                         /\ lists_of(order_lists'[k[1]][k[2]])[n].length
                               = lists_of(order_lists[k[1]][k[2]])[n].length]_vars

\* C25 witness: trigger was called with an untriggered order of a market index for
\* which the registry holds the Trigger lists.
C25_Witness ==
    /\ last.op = "trigger"
    /\ last.order.status # "Init"
    /\ last.order.trigger_condition = "Above"
    /\ HoldsBucket(DlobState, last.order.market_type, last.order.market_index, "Trigger")
    /\ ~panicked

\* The lists of the registry, each named by its market key and its place in the
\* bucket, that hold the signature in their index or in their sequence.
HoldersOf(d, sig) ==
    {h \in market_keys(d) \X (1..2) :
        LET l == lists_of(d.order_lists[h[1][1]][h[1][2]])[h[2]]
        IN  \/ sig \in DOMAIN l.node_map
            \/ \E i \in DOMAIN IterSigs(l) : IterSigs(l)[i] = sig}

=============================================================================
